---- MODULE Spec2Model ----
(***************************************************************************)
(* The Airbnb searching dashboard of streamlit_app.py: a script that the   *)
(* UI framework runs from top to bottom once at session start and again    *)
(* after every widget change.  One run loads and cleans listings.csv,      *)
(* filters it by price range and superhost flag (base_df), summarises the  *)
(* mean price per neighbourhood (neighborhood_avg), filters by room type   *)
(* and neighbourhood (filtered_df), and shows one selected listing.        *)
(*                                                                         *)
(* Numbers.  Prices are held in hundredths (Scale), so "$2.50" is 250;     *)
(* the slider's bounds are whole currency units as in the script.  A mean  *)
(* is held as the pair (sum, n) and compared by cross multiplication.      *)
(* A missing numeric cell is NaN, a missing text cell is NULL; pandas'     *)
(* == on a missing value is false, which PdEq models.                      *)
(***************************************************************************)
EXTENDS Integers, Sequences, FiniteSets

\* ------------------------------------------------------------------ bounds
MaxRows == 3        \* rows of listings.csv in a session
MaxCallRows == 2    \* rows of listings.csv when a stage is called on its own
MaxBound == 3       \* largest price bound handed to the stage-1 filter on its own

\* ------------------------------------------------------- representation
Scale == 100                \* price unit: 1/100 of a currency unit
NaN == 0 - 999999           \* missing numeric value
NULL == "<NA>"              \* missing text value
NONE == "<none>"            \* a widget that was not rendered in this run

Range(s) == {s[i] : i \in 1..Len(s)}

\* pandas' elementwise ==: a missing value equals nothing, itself included
PdEq(a, b) == a # NULL /\ b # NULL /\ a = b

\* ------------------------------------------------------------ price parse
DigitChars == {"0", "1", "2", "3", "4", "5", "6", "7", "8", "9"}

DigitVal(c) ==
    CASE c = "0" -> 0 [] c = "1" -> 1 [] c = "2" -> 2 [] c = "3" -> 3
      [] c = "4" -> 4 [] c = "5" -> 5 [] c = "6" -> 6 [] c = "7" -> 7
      [] c = "8" -> 8 [] c = "9" -> 9

RECURSIVE DigitsVal(_)
DigitsVal(s) ==
    IF s = <<>> THEN 0
    ELSE DigitsVal(SubSeq(s, 1, Len(s) - 1)) * 10 + DigitVal(s[Len(s)])

\* .replace('[\$,]', '', regex=True): every "$" and "," is removed
StripCurrency(s) == SelectSeq(s, LAMBDA c : c \notin {"$", ","})

Unsigned(t) == IF t # <<>> /\ t[1] = "-" THEN Tail(t) ELSE t

DotAt(b) == {i \in 1..Len(b) : b[i] = "."}

\* the text float() accepts: optional sign, digits, at most one point
IsFloatLiteral(t) ==
    LET b == Unsigned(t) IN
    /\ Cardinality(DotAt(b)) <= 1
    /\ \A i \in 1..Len(b) : b[i] \in DigitChars \cup {"."}
    /\ \E i \in 1..Len(b) : b[i] \in DigitChars

\* value of a float literal in hundredths (literals carry at most 2 decimals)
ToFloat(t) ==
    LET b == Unsigned(t)
        d == IF DotAt(b) = {} THEN Len(b) + 1 ELSE CHOOSE i \in DotAt(b) : TRUE
        ip == SubSeq(b, 1, d - 1)
        fp == SubSeq(b, d + 1, Len(b))
        frac == IF Len(fp) = 0 THEN 0
                ELSE IF Len(fp) = 1 THEN DigitVal(fp[1]) * 10
                ELSE DigitsVal(SubSeq(fp, 1, 2))
        mag == DigitsVal(ip) * Scale + frac
    IN IF t # <<>> /\ t[1] = "-" THEN 0 - mag ELSE mag

\* a row whose price cell is text that float() rejects: astype(float) raises
PriceUnparsable(raw) == raw.price # <<>> /\ ~IsFloatLiteral(StripCurrency(raw.price))

\* the price cell after line 9: an empty cell is NaN and stays NaN
ParsePrice(cell) == IF cell = <<>> THEN NaN ELSE ToFloat(StripCurrency(cell))

\* df['id'].astype(str)
IdStr(n) ==
    CASE n = 1 -> "1" [] n = 2 -> "2" [] n = 3 -> "3" [] n = 4 -> "4"
      [] n = 5 -> "5" [] n = 6 -> "6" [] n = 7 -> "7" [] n = 8 -> "8"
      [] n = 9 -> "9" [] n = 10 -> "10" [] n = 11 -> "11" [] OTHER -> "nan"

\* .map({'t': 'Yes', 'f': 'No'}): any other code becomes missing
SuperhostMap(code) ==
    CASE code = "t" -> "Yes" [] code = "f" -> "No" [] OTHER -> NULL

review_columns ==
    << "review_scores_rating", "review_scores_accuracy", "review_scores_cleanliness",
       "review_scores_checkin", "review_scores_communication", "review_scores_location" >>

tooltip_columns == << "picture_url", "host_url", "host_response_rate" >>

essential_columns == << "price", "room_type", "host_neighbourhood", "host_is_superhost" >>

\* dropna(subset=cols): keep the rows that have a value in every listed column
NumericColumns == Range(review_columns) \cup {"price"}

HasAll(r, cols) ==
    \A i \in 1..Len(cols) :
        IF cols[i] \in NumericColumns THEN r[cols[i]] # NaN ELSE r[cols[i]] # NULL

DropNa(frame, cols) == SelectSeq(frame, LAMBDA r : HasAll(r, cols))

SumScores(r) ==
    r.review_scores_rating + r.review_scores_accuracy + r.review_scores_cleanliness
    + r.review_scores_checkin + r.review_scores_communication + r.review_scores_location

\* lines 9-11: the typed columns of one row
Preprocess(raw) ==
    [raw EXCEPT !.price = ParsePrice(raw.price),
                !.id = IdStr(raw.id),
                !.host_is_superhost = SuperhostMap(raw.host_is_superhost)]

\* line 22: mean of the six sub-scores, as (sum, 6)
WithAvg(r) ==
    [f \in DOMAIN r \cup {"avg_review_score"} |->
        IF f = "avg_review_score" THEN << SumScores(r), Len(review_columns) >> ELSE r[f]]

\* lines 9-26 on a frame whose prices all parse
Clean(rows) ==
    LET typed == [i \in 1..Len(rows) |-> Preprocess(rows[i])]
        a == DropNa(typed, essential_columns)
        b == DropNa(a, review_columns)
        c == [i \in 1..Len(b) |-> WithAvg(b[i])]
    IN DropNa(c, tooltip_columns)

\* line 9 raises ValueError for the whole frame when one cell does not parse
LoadFails(rows) == \E i \in 1..Len(rows) : PriceUnparsable(rows[i])

\* ------------------------------------------------------------ the script
\* int(x): truncation toward zero of a price in hundredths, in whole units
IntOf(x) == IF x >= 0 THEN x \div Scale ELSE 0 - ((0 - x) \div Scale)

Prices(frame) == {frame[i].price : i \in 1..Len(frame)}

SetMin(S) == CHOOSE x \in S : \A y \in S : x <= y
SetMax(S) == CHOOSE x \in S : \A y \in S : x >= y

\* line 33 (df not empty)
PriceMin(frame) == IntOf(SetMin(Prices(frame)))
PriceMax(frame) == IntOf(SetMax(Prices(frame)))

\* the upper bound taken as exclusive
Stage1_exclusiveUpper(frame, lo, hi, flag) ==
    SelectSeq(frame, LAMBDA r : /\ r.price >= lo * Scale
                                /\ r.price < hi * Scale
                                /\ PdEq(r.host_is_superhost, flag))

\* lines 40-44
Stage1(frame, lo, hi, flag) ==
    SelectSeq(frame, LAMBDA r : /\ r.price >= lo * Scale
                                /\ r.price <= hi * Scale
                                /\ PdEq(r.host_is_superhost, flag))

\* ascending order of the text values that the script sorts
Rank(s) ==
    CASE s = "Alpha" -> 1 [] s = "Bravo" -> 2
      [] s = "Entire home/apt" -> 3 [] s = "Private room" -> 4

\* sorted(list(S)) for a set of text values
RECURSIVE SortedSeq(_)
SortedSeq(S) ==
    IF S = {} THEN <<>>
    ELSE LET m == CHOOSE x \in S : \A y \in S : Rank(x) <= Rank(y)
         IN <<m>> \o SortedSeq(S \ {m})

\* Series.unique().tolist(): the distinct values in order of first appearance
RECURSIVE Unique(_)
Unique(s) ==
    IF s = <<>> THEN <<>>
    ELSE LET init == Unique(SubSeq(s, 1, Len(s) - 1))
             x == s[Len(s)]
         IN IF x \in Range(init) THEN init ELSE Append(init, x)

Column(frame, col) == [i \in 1..Len(frame) |-> frame[i][col]]

RECURSIVE SumPrice(_)
SumPrice(frame) ==
    IF frame = <<>> THEN 0 ELSE frame[1].price + SumPrice(Tail(frame))

\* groupby('neighbourhood_cleansed', as_index=False)['price'].mean():
\* one row per non-missing key (groupby drops missing keys), price = (sum, n)
GroupbyMean(frame) ==
    LET keys == Range(Column(frame, "neighbourhood_cleansed")) \ {NULL}
        grp(k) == SelectSeq(frame, LAMBDA r : r.neighbourhood_cleansed = k)
    IN {[neighbourhood_cleansed |-> k, price |-> << SumPrice(grp(k)), Len(grp(k)) >>] : k \in keys}

\* a.price > b.price for two means
MeanGt(a, b) == a.price[1] * b.price[2] > b.price[1] * a.price[2]
MeanEq(a, b) == a.price[1] * b.price[2] = b.price[1] * a.price[2]

\* .sort_values('price', ascending=False) with the default kind='quicksort':
\* descending by mean; the sort is not stable, rows with equal means may
\* come out in either order
SortValuesDesc(G) ==
    LET n == Cardinality(G) IN
    {s \in [1..n -> G] :
        /\ \A i, j \in 1..n : i # j => s[i] # s[j]
        /\ \A i, j \in 1..n : i < j => ~MeanGt(s[j], s[i])}

\* lines 95 and 98: sorted() of a list that mixes a missing value (a float)
\* with text raises TypeError
SortedRaises(S) == NULL \in S /\ S # {NULL}

RoomTypes == {"Entire home/apt", "Private room"}

\* the room types offered without looking at the view
AvailableRooms_allTypes(view) == SortedSeq(RoomTypes)

AvailableRooms(view) == SortedSeq(Range(Column(view, "room_type")))

AvailableNeighborhoods(view) == SortedSeq(Range(Column(view, "neighbourhood_cleansed")) \ {NULL})
                                  \o (IF NULL \in Range(Column(view, "neighbourhood_cleansed"))
                                      THEN <<NULL>> ELSE <<>>)

\* the room-type condition left out
Stage2_neighborhoodOnly(view, room, nb) ==
    SelectSeq(view, LAMBDA r : PdEq(r.neighbourhood_cleansed, nb))

\* lines 101-104
Stage2(view, room, nb) ==
    SelectSeq(view, LAMBDA r : /\ PdEq(r.room_type, room)
                               /\ PdEq(r.neighbourhood_cleansed, nb))

\* line 134
AvailableIds(view) == Unique(Column(view, "id"))

\* line 137: filtered_df[filtered_df['id'] == selected_id]
Matching(view, id) == SelectSeq(view, LAMBDA r : PdEq(r.id, id))

\* two score fields paired with each other's label
ReviewScores_swapped(row) ==
    << [Category |-> "Rating",        Score |-> row.review_scores_rating],
       [Category |-> "Accuracy",      Score |-> row.review_scores_cleanliness],
       [Category |-> "Cleanliness",   Score |-> row.review_scores_accuracy],
       [Category |-> "Check-in",      Score |-> row.review_scores_checkin],
       [Category |-> "Communication", Score |-> row.review_scores_communication],
       [Category |-> "Location",      Score |-> row.review_scores_location] >>

\* lines 140-150
ReviewScores(row) ==
    << [Category |-> "Rating",        Score |-> row.review_scores_rating],
       [Category |-> "Accuracy",      Score |-> row.review_scores_accuracy],
       [Category |-> "Cleanliness",   Score |-> row.review_scores_cleanliness],
       [Category |-> "Check-in",      Score |-> row.review_scores_checkin],
       [Category |-> "Communication", Score |-> row.review_scores_communication],
       [Category |-> "Location",      Score |-> row.review_scores_location] >>

host_fields == << "host_name", "host_response_rate", "host_acceptance_rate" >>

\* Series.get(field, default): the default is used only when the row has no
\* such column
Get(row, field, default) == IF field \in DOMAIN row THEN row[field] ELSE default

\* how an f-string shows a value: a missing value prints as nan
Format(v) == IF v = NULL THEN "nan" ELSE v

\* field.replace('_', ' ').title()
Title(field) ==
    CASE field = "host_name" -> "Host Name"
      [] field = "host_response_rate" -> "Host Response Rate"
      [] field = "host_acceptance_rate" -> "Host Acceptance Rate"

\* lines 165-168
HostInfo(row) ==
    [i \in 1..Len(host_fields) |->
        [label |-> Title(host_fields[i]),
         value |-> Format(Get(row, host_fields[i], "Not Available"))]]
\* .iloc[0] of the matching rows: IndexError when there is none
Select(view, id) ==
    LET m == Matching(view, id) IN
    IF m = <<>>
    THEN [outcome |-> "IndexError", selected_row |-> <<>>,
          review_scores |-> <<>>, host_info |-> <<>>]
    ELSE [outcome |-> "shown", selected_row |-> << m[1] >>,
          review_scores |-> ReviewScores(m[1]), host_info |-> HostInfo(m[1])]

\* ------------------------------------------------------------- widgets
\* st.selectbox: the stored choice survives a rerun only while the widget is
\* rendered with the same options; otherwise the first option is returned
Selectbox(options, prevOptions, prev) ==
    IF prevOptions = options /\ prev \in Range(options) THEN prev ELSE options[1]

\* st.slider with value=(min, max): the stored pair, or the default full range
Slider(min, max, prev) == IF prev # <<>> THEN prev ELSE << min, max >>

superhost_options == << "Yes", "No" >>

\* ------------------------------------------------------------ listings.csv
ListingA ==
    [id |-> 1, price |-> << "$", "2", ".", "5", "0" >>, host_is_superhost |-> "t",
     room_type |-> "Entire home/apt", host_neighbourhood |-> "Mission",
     neighbourhood_cleansed |-> "Alpha",
     review_scores_rating |-> 5, review_scores_accuracy |-> 4,
     review_scores_cleanliness |-> 3, review_scores_checkin |-> 2,
     review_scores_communication |-> 1, review_scores_location |-> 0,
     picture_url |-> "https://pic", host_url |-> "https://host",
     host_response_rate |-> "90%", host_name |-> "Ann",
     host_acceptance_rate |-> "80%"]

Listings ==
    { ListingA,
      [ListingA EXCEPT !.id = 2, !.price = << "$", "1", ".", "0", "0" >>,
                       !.room_type = "Private room", !.neighbourhood_cleansed = "Bravo",
                       !.host_acceptance_rate = NULL, !.host_name = NULL],
      [ListingA EXCEPT !.id = 3, !.price = << "1" >>],
      [ListingA EXCEPT !.id = 4, !.price = << "$", "3", ".", "0", "0" >>,
                       !.host_is_superhost = "f", !.room_type = "Private room"],
      [ListingA EXCEPT !.id = 5, !.price = << "$", "2", ".", "0", "0" >>,
                       !.neighbourhood_cleansed = NULL],
      [ListingA EXCEPT !.id = 6, !.price = << "$", "x" >>],
      [ListingA EXCEPT !.id = 7, !.price = << >>],
      [ListingA EXCEPT !.id = 8, !.review_scores_cleanliness = NaN],
      [ListingA EXCEPT !.id = 9, !.host_response_rate = NULL],
      [ListingA EXCEPT !.id = 10, !.host_is_superhost = "x"],
      [ListingA EXCEPT !.id = 11, !.price = << "-", "$", "0", ".", "5", "0" >>] }

CsvFiles(max) == UNION {[1..n -> Listings] : n \in 0..max}

Neighborhoods == {"Alpha", "Bravo", NULL}
Identifiers == {IdStr(n) : n \in 1..11}

\* ---------------------------------------------------------------- state
VARIABLES
    csv,                    \* the rows pd.read_csv returns for listings.csv
    df,                     \* the cleaned frame
    price_min, price_max,
    selected_price, selected_superhost,
    base_df,
    neighborhood_avg,
    available_rooms, selected_room,
    available_neighborhoods, selected_neighborhood,
    filtered_df,
    available_ids, selected_id,
    selected_row,           \* << >> or << row >>
    review_scores,
    host_info,
    outcome                 \* how far the last run got

vars == << csv, df, price_min, price_max, selected_price, selected_superhost, base_df,
           neighborhood_avg, available_rooms, selected_room, available_neighborhoods,
           selected_neighborhood, filtered_df, available_ids, selected_id, selected_row,
           review_scores, host_info, outcome >>

Blank ==
    [df |-> <<>>, price_min |-> 0, price_max |-> 0, selected_price |-> <<>>,
     selected_superhost |-> NONE, base_df |-> <<>>, neighborhood_avg |-> <<>>,
     available_rooms |-> <<>>, selected_room |-> NONE,
     available_neighborhoods |-> <<>>, selected_neighborhood |-> NONE,
     filtered_df |-> <<>>, available_ids |-> <<>>, selected_id |-> NONE,
     selected_row |-> <<>>, review_scores |-> <<>>, host_info |-> <<>>,
     outcome |-> "start"]

\* the widget state a run starts from
NoWidgets ==
    [price |-> <<>>, superhost |-> NONE, room |-> NONE, room_options |-> <<>>,
     neighborhood |-> NONE, neighborhood_options |-> <<>>, id |-> NONE, id_options |-> <<>>]

\* lines 137-168 written into the result of the run
WithSelection(r, sel) ==
    [r EXCEPT !.selected_row = sel.selected_row, !.review_scores = sel.review_scores,
              !.host_info = sel.host_info, !.outcome = sel.outcome]

\* lines 135-168
Stage3(r, w) ==
    WithSelection([r EXCEPT !.selected_id = Selectbox(r.available_ids, w.id_options, w.id)],
                  Select(r.filtered_df, Selectbox(r.available_ids, w.id_options, w.id)))

\* lines 109-170: stage 3 on a non-empty filtered_df, else the warning
AfterStage2(r, w) ==
    IF r.filtered_df = <<>>
    THEN [r EXCEPT !.outcome = "no_filtered"]
    ELSE Stage3([r EXCEPT !.available_ids = AvailableIds(r.filtered_df)], w)

\* lines 101-104 with the two choices made
FilterStage2(r, w) ==
    AfterStage2([r EXCEPT !.filtered_df =
                    Stage2(r.base_df, r.selected_room, r.selected_neighborhood)], w)

\* line 99
ChooseNeighborhood(r, w) ==
    FilterStage2([r EXCEPT !.selected_neighborhood =
                     Selectbox(r.available_neighborhoods, w.neighborhood_options,
                               w.neighborhood)], w)

\* line 98: the options, or the TypeError of sorted()
OfferNeighborhoods(r, w) ==
    IF SortedRaises(Range(Column(r.base_df, "neighbourhood_cleansed")))
    THEN [r EXCEPT !.outcome = "TypeError"]
    ELSE ChooseNeighborhood(
            [r EXCEPT !.available_neighborhoods = AvailableNeighborhoods(r.base_df)], w)

\* line 96
ChooseRoom(r, w) ==
    OfferNeighborhoods(
        [r EXCEPT !.selected_room = Selectbox(r.available_rooms, w.room_options, w.room)], w)

\* lines 74-172 on a non-empty base_df, given the sorted summary
Stage23(r, w, avg) ==
    ChooseRoom([r EXCEPT !.neighborhood_avg = avg,
                         !.available_rooms = AvailableRooms(r.base_df)], w)

\* lines 58-172: the set of results the run can end in
AfterStage1(r, w) ==
    IF r.base_df = <<>>
    THEN {[r EXCEPT !.outcome = "no_base"]}
    ELSE {Stage23(r, w, avg) : avg \in SortValuesDesc(GroupbyMean(r.base_df))}

\* lines 40-44 with the two choices made
FilterStage1(d, lo, hi, sp, sh, w) ==
    AfterStage1([Blank EXCEPT !.df = d, !.price_min = lo, !.price_max = hi,
                              !.selected_price = sp, !.selected_superhost = sh,
                              !.base_df = Stage1(d, sp[1], sp[2], sh)], w)

\* line 34 with min_value = max_value: the framework either draws the slider
\* and returns the pair or, in the releases that insist on min_value <
\* max_value, raises; the run then ends at line 34
SliderRejects(d, lo, hi) ==
    IF lo = hi
    THEN {[Blank EXCEPT !.df = d, !.price_min = lo, !.price_max = hi,
                        !.outcome = "SliderError"]}
    ELSE {}

\* lines 34-37
Sidebar1(d, lo, hi, w) ==
    SliderRejects(d, lo, hi)
    \cup FilterStage1(d, lo, hi, Slider(lo, hi, w.price),
                      Selectbox(superhost_options, superhost_options, w.superhost), w)

\* line 33: int() of the minimum of an empty column raises ValueError
AfterClean(d, w) ==
    IF d = <<>>
    THEN {[Blank EXCEPT !.outcome = "ValueError_int"]}
    ELSE Sidebar1(d, PriceMin(d), PriceMax(d), w)

\* one run of the script on the rows of the file with the widget state w:
\* the set of results it can end in
Run(rows, w) ==
    IF LoadFails(rows)
    THEN {[Blank EXCEPT !.outcome = "ValueError_price"]}
    ELSE AfterClean(Clean(rows), w)

Widgets ==
    [price |-> selected_price, superhost |-> selected_superhost,
     room |-> selected_room, room_options |-> available_rooms,
     neighborhood |-> selected_neighborhood,
     neighborhood_options |-> available_neighborhoods,
     id |-> selected_id, id_options |-> available_ids]

Show(r) ==
    /\ df' = r.df
    /\ price_min' = r.price_min
    /\ price_max' = r.price_max
    /\ selected_price' = r.selected_price
    /\ selected_superhost' = r.selected_superhost
    /\ base_df' = r.base_df
    /\ neighborhood_avg' = r.neighborhood_avg
    /\ available_rooms' = r.available_rooms
    /\ selected_room' = r.selected_room
    /\ available_neighborhoods' = r.available_neighborhoods
    /\ selected_neighborhood' = r.selected_neighborhood
    /\ filtered_df' = r.filtered_df
    /\ available_ids' = r.available_ids
    /\ selected_id' = r.selected_id
    /\ selected_row' = r.selected_row
    /\ review_scores' = r.review_scores
    /\ host_info' = r.host_info
    /\ outcome' = r.outcome

\* the first run of the script on one of the files, every widget at its default
Start(files) ==
    /\ csv \in files
    /\ \E r \in Run(csv, NoWidgets) :
        /\ df = r.df
        /\ price_min = r.price_min
        /\ price_max = r.price_max
        /\ selected_price = r.selected_price
        /\ selected_superhost = r.selected_superhost
        /\ base_df = r.base_df
        /\ neighborhood_avg = r.neighborhood_avg
        /\ available_rooms = r.available_rooms
        /\ selected_room = r.selected_room
        /\ available_neighborhoods = r.available_neighborhoods
        /\ selected_neighborhood = r.selected_neighborhood
        /\ filtered_df = r.filtered_df
        /\ available_ids = r.available_ids
        /\ selected_id = r.selected_id
        /\ selected_row = r.selected_row
        /\ review_scores = r.review_scores
        /\ host_info = r.host_info
        /\ outcome = r.outcome

\* session start
Init == Start(CsvFiles(MaxRows))

\* the user moves the price slider (line 34) and the script reruns
ChangePrice(lo, hi) ==
    /\ selected_price # <<>>
    /\ lo \in price_min..price_max /\ hi \in price_min..price_max /\ lo <= hi
    /\ << lo, hi >> # selected_price
    /\ \E r \in Run(csv, [Widgets EXCEPT !.price = << lo, hi >>]) : Show(r)
    /\ UNCHANGED csv

\* the user picks the other superhost option (line 37)
ChangeSuperhost(flag) ==
    /\ selected_superhost # NONE
    /\ flag \in Range(superhost_options) /\ flag # selected_superhost
    /\ \E r \in Run(csv, [Widgets EXCEPT !.superhost = flag]) : Show(r)
    /\ UNCHANGED csv

\* the user picks another room type (line 96)
ChangeRoom(room) ==
    /\ room \in Range(available_rooms) /\ room # selected_room
    /\ \E r \in Run(csv, [Widgets EXCEPT !.room = room]) : Show(r)
    /\ UNCHANGED csv

\* the user picks another neighbourhood (line 99)
ChangeNeighborhood(nb) ==
    /\ nb \in Range(available_neighborhoods) /\ nb # selected_neighborhood
    /\ \E r \in Run(csv, [Widgets EXCEPT !.neighborhood = nb]) : Show(r)
    /\ UNCHANGED csv

\* the user picks another listing (line 135)
ChangeListing(id) ==
    /\ id \in Range(available_ids) /\ id # selected_id
    /\ \E r \in Run(csv, [Widgets EXCEPT !.id = id]) : Show(r)
    /\ UNCHANGED csv

Next ==
    \/ \E lo, hi \in price_min..price_max : ChangePrice(lo, hi)
    \/ \E flag \in Range(superhost_options) : ChangeSuperhost(flag)
    \/ \E room \in RoomTypes : ChangeRoom(room)
    \/ \E nb \in Neighborhoods : ChangeNeighborhood(nb)
    \/ \E id \in Identifiers : ChangeListing(id)

Spec == Init /\ [][Next]_vars
\* ------------------------------------------- the stages called on their own
\* the frames the stages are called on: those of a first run
InitCall == Start(CsvFiles(MaxCallRows))

\* apply_stage1 on the cleaned frame with any bounds and flag (lines 40-44)
ApplyStage1(lo, hi, flag) ==
    /\ ~LoadFails(csv)
    /\ outcome # "stage1"
    /\ selected_price' = << lo, hi >>
    /\ selected_superhost' = flag
    /\ base_df' = Stage1(df, lo, hi, flag)
    /\ outcome' = "stage1"
    /\ neighborhood_avg' = <<>>
    /\ available_rooms' = <<>> /\ selected_room' = NONE
    /\ available_neighborhoods' = <<>> /\ selected_neighborhood' = NONE
    /\ filtered_df' = <<>>
    /\ available_ids' = <<>> /\ selected_id' = NONE
    /\ selected_row' = <<>> /\ review_scores' = <<>> /\ host_info' = <<>>
    /\ UNCHANGED << csv, df, price_min, price_max >>

NextStage1 ==
    \E lo, hi \in 0..MaxBound : \E flag \in Range(superhost_options) :
        ApplyStage1(lo, hi, flag)

SpecStage1 == InitCall /\ [][NextStage1]_vars

\* apply_stage2 on the current base_df with any room type and neighbourhood
\* (lines 101-104)
ApplyStage2(room, nb) ==
    /\ ~LoadFails(csv)
    /\ outcome \notin {"stage2", "selected", "IndexError"}
    /\ selected_room' = room
    /\ selected_neighborhood' = nb
    /\ filtered_df' = Stage2(base_df, room, nb)
    /\ outcome' = "stage2"
    /\ available_ids' = <<>> /\ selected_id' = NONE
    /\ selected_row' = <<>> /\ review_scores' = <<>> /\ host_info' = <<>>
    /\ UNCHANGED << csv, df, price_min, price_max, selected_price, selected_superhost,
                    base_df, neighborhood_avg, available_rooms, available_neighborhoods >>

\* the stage-3 lookup on the current filtered_df with any identifier
\* (lines 137-168)
SelectRecord(id) ==
    /\ outcome = "stage2"
    /\ LET sel == Select(filtered_df, id) IN
        /\ selected_id' = id
        /\ selected_row' = sel.selected_row
        /\ review_scores' = sel.review_scores
        /\ host_info' = sel.host_info
        /\ outcome' = IF sel.outcome = "shown" THEN "selected" ELSE sel.outcome
    /\ available_ids' = AvailableIds(filtered_df)
    /\ UNCHANGED << csv, df, price_min, price_max, selected_price, selected_superhost,
                    base_df, neighborhood_avg, available_rooms, selected_room,
                    available_neighborhoods, selected_neighborhood, filtered_df >>

NextSelect ==
    \/ \E room \in RoomTypes : \E nb \in Neighborhoods : ApplyStage2(room, nb)
    \/ \E id \in Identifiers : SelectRecord(id)

SpecSelect == InitCall /\ [][NextSelect]_vars
\* ================================================================ claims
Stage1Ran == selected_price # <<>>
\* the slider has a range to offer (min_value < max_value)
ProperRange == price_min < price_max
SummaryRan == outcome \in {"TypeError", "no_filtered", "shown"}
Stage2Ran == outcome \in {"no_filtered", "shown"}

\* C1 (SpecStage1): base_view is exactly the cleaned records whose price lies
\* in [price_min, price_max], both ends included, and whose superhost flag is
\* the selected one; with price_min > price_max the view is empty and the
\* call ends normally.
C1_Stage1Exact ==
    outcome = "stage1" =>
        LET lo == selected_price[1]
            hi == selected_price[2]
            In(r) == /\ lo * Scale <= r.price /\ r.price <= hi * Scale
                     /\ r.host_is_superhost = selected_superhost
        IN /\ \A i \in 1..Len(df) : (df[i] \in Range(base_df)) <=> In(df[i])
           /\ Range(base_df) \subseteq Range(df)
           /\ Len(base_df) = Cardinality({i \in 1..Len(df) : In(df[i])})
           /\ (lo > hi => base_df = <<>>)

C1_Witness ==
    /\ outcome = "stage1"
    /\ selected_price[1] > selected_price[2]
    /\ \E i \in 1..Len(df) : df[i].host_is_superhost = selected_superhost
    /\ base_df = <<>>

\* C2 (Spec): for a cleaned set of non-negative prices, with the slider (drawn
\* over a proper range) at its full default range and the flag "Yes",
\* base_view is exactly the cleaned records whose host_is_superhost is "Yes".
C2_FullRangeKeepsEverySuperhost ==
    (/\ Stage1Ran /\ ProperRange
     /\ \A i \in 1..Len(df) : df[i].price >= 0
     /\ selected_price = << price_min, price_max >>
     /\ selected_superhost = "Yes")
        => base_df = SelectSeq(df, LAMBDA r : r.host_is_superhost = "Yes")

\* C3 (Spec): every record of the cleaned set, of base_view and of
\* filtered_view has a price, a room type, a neighbourhood (the
\* neighbourhood_cleansed the views group and filter by), a superhost flag,
\* all six review scores, a picture, a host reference and a response rate.
C3_CleanedRecordsComplete ==
    \A r \in Range(df) \cup Range(base_df) \cup Range(filtered_df) :
        /\ r.price # NaN
        /\ r.room_type # NULL
        /\ r.neighbourhood_cleansed # NULL
        /\ r.host_is_superhost # NULL
        /\ \A i \in 1..Len(review_columns) : r[review_columns[i]] # NaN
        /\ r.picture_url # NULL
        /\ r.host_url # NULL
        /\ r.host_response_rate # NULL

C5_Stage2NeverEmpty ==
    (Stage2Ran /\ ProperRange /\ base_df # <<>> /\ selected_neighborhood # NULL)
        => filtered_df # <<>>

\* C5 as amended (Spec): the chosen room type is the room type of some record
\* of base_view and the chosen neighbourhood is the neighbourhood of some
\* record of base_view; filtered_view holds the records of base_view that
\* have both, and is empty when no record combines the two, in which case the
\* run ends with the stage-2 warning and no listing is selected.
C5_OptionsComeFromBaseView ==
    Stage2Ran =>
        /\ base_df # <<>>
        /\ \E i \in 1..Len(base_df) : base_df[i].room_type = selected_room
        /\ \E i \in 1..Len(base_df) : base_df[i].neighbourhood_cleansed = selected_neighborhood
        /\ \A i \in 1..Len(base_df) :
              (base_df[i] \in Range(filtered_df))
                <=> (/\ base_df[i].room_type = selected_room
                     /\ selected_neighborhood # NULL
                     /\ base_df[i].neighbourhood_cleansed = selected_neighborhood)
        /\ (filtered_df = <<>> => outcome = "no_filtered" /\ selected_row = <<>>)

C5_Witness ==
    /\ outcome = "no_filtered"
    /\ ProperRange
    /\ selected_neighborhood # NULL
    /\ \E i \in 1..Len(base_df) : base_df[i].room_type = selected_room
    /\ \E i \in 1..Len(base_df) : base_df[i].neighbourhood_cleansed = selected_neighborhood
    /\ filtered_df = <<>>

C7_MissingHostFieldIsMarked ==
    (outcome = "shown" /\ ProperRange) =>
        /\ Len(host_info) = Len(host_fields)
        /\ \A i \in 1..Len(host_fields) :
              host_info[i].value =
                IF selected_row[1][host_fields[i]] = NULL THEN "Not Available"
                ELSE selected_row[1][host_fields[i]]

\* C8 (Spec): a row whose price does not parse into a non-negative decimal
\* is left out of the cleaned set and the load goes on with the other rows.
C8_BadPriceExcludesOnlyTheRecord ==
    /\ outcome # "ValueError_price"
    /\ \A i \in 1..Len(df) : df[i].price >= 0

\* C9 (Spec): the selected record carries the selected identifier, which is
\* one of filtered_view's; the breakdown is the six pairs Rating, Accuracy,
\* Cleanliness, Check-in, Communication, Location in this order, each with
\* the record's score of that name.
C9_ReviewBreakdown ==
    outcome = "shown" =>
        LET row == selected_row[1] IN
        /\ row \in Range(filtered_df)
        /\ row.id = selected_id
        /\ [i \in 1..Len(review_scores) |-> review_scores[i].Category]
             = << "Rating", "Accuracy", "Cleanliness", "Check-in", "Communication", "Location" >>
        /\ [i \in 1..Len(review_scores) |-> review_scores[i].Score]
             = << row.review_scores_rating, row.review_scores_accuracy,
                  row.review_scores_cleanliness, row.review_scores_checkin,
                  row.review_scores_communication, row.review_scores_location >>

C9_Witness ==
    /\ outcome = "shown"
    /\ ProperRange
    /\ Len(available_ids) >= 2
    /\ selected_id = available_ids[2]
    /\ selected_row[1].id = selected_id
    /\ Len(review_scores) = 6

\* a record of the view r satisfies the current stage-1 / stage-2 predicates
SatisfiesStage1(r) ==
    /\ selected_price[1] * Scale <= r.price /\ r.price <= selected_price[2] * Scale
    /\ r.host_is_superhost = selected_superhost

SatisfiesStage2(r) ==
    r.room_type = selected_room /\ r.neighbourhood_cleansed = selected_neighborhood

IsSubSeq(v, w) == \A i \in 1..Len(v) : v[i] \in Range(w)

ViewsOfCurrentFilters ==
    /\ IsSubSeq(filtered_df, base_df) /\ IsSubSeq(base_df, df)
    /\ \A i \in 1..Len(base_df) : SatisfiesStage1(base_df[i])
    /\ \A i \in 1..Len(filtered_df) : SatisfiesStage2(filtered_df[i])
    /\ selected_row # <<>> =>
          /\ selected_row[1] \in Range(filtered_df)
          /\ SatisfiesStage1(selected_row[1]) /\ SatisfiesStage2(selected_row[1])
    /\ selected_room # NONE => base_df # <<>>
    /\ selected_neighborhood # NONE => base_df # <<>>
    /\ selected_id # NONE => filtered_df # <<>>
    /\ base_df = <<>> => filtered_df = <<>> /\ selected_row = <<>>

\* C10 (Spec): whatever the filters are changed to, the cleaned set stays what
\* it was at load; filtered_view is within base_view, base_view within the
\* cleaned set, a selected record is in filtered_view and satisfies the
\* current stage-1 and stage-2 predicates; stage 2 runs only on a non-empty
\* base_view and stage 3 only on a non-empty filtered_view.
C10_ViewsFollowFilterState ==
    [](ViewsOfCurrentFilters) /\ [][df' = df /\ csv' = csv]_vars

C10_Witness ==
    /\ outcome = "shown"
    /\ selected_price # << price_min, price_max >>
    /\ Len(df) > Len(base_df)
    /\ Len(base_df) > Len(filtered_df)
====
